---- MODULE Spec2Model ----
(***************************************************************************)
(* Collocation dataset and residual loss assembler of deepxde/data/pde.py  *)
(* (classes PDE and TimePDE).                                              *)
(*                                                                         *)
(* A point array is a record: isNone marks Python's None, ncols is the     *)
(* second dimension of the numpy shape, rows is the sequence of rows, each *)
(* row a sequence of numbers.  An exception raised by a method is recorded *)
(* in err; the fields keep whatever the method had assigned before the     *)
(* raise, exactly as the Python object does.  That holds for __init__ as   *)
(* well: when it raises, the object stays as the raise left it and its     *)
(* methods remain callable by whoever holds it (a subclass constructor, a  *)
(* caller of __new__).                                                     *)
(*                                                                         *)
(* call, err, ret, largs and loss_list describe the latest call: its name, *)
(* the exception it raised, what it returned.  ctor_anchors, supplied and  *)
(* candidate are history: the constructor's anchors, the arrays given to   *)
(* add_anchors, and self.train_x as it was last handed to bc_points.       *)
(***************************************************************************)
EXTENDS Integers, Sequences, FiniteSets, TLC

VARIABLES variant, num_domain, num_boundary, num_initial, train_distribution,
          anchors, soln, num_test, bcs,
          num_bcs, train_x, train_y, test_x, test_y,
          pc, call, err, ret, largs, loss_list,
          ctor_anchors, supplied, candidate

vars == <<variant, num_domain, num_boundary, num_initial, train_distribution,
          anchors, soln, num_test, bcs,
          num_bcs, train_x, train_y, test_x, test_y,
          pc, call, err, ret, largs, loss_list,
          ctor_anchors, supplied, candidate>>

(* ---------------------------- bounds ---------------------------------- *)

\* total number of points a configuration asks the geometry for
MaxPoints == 1
\* number of add_anchors calls in one run
MaxAdds == 1
\* number of residual components the pde callback returns
MaxResidual == 2
\* the explicit test count, when one is configured
MaxTest == 1

(* --------------------------- numpy arrays ------------------------------ *)

\* geometry.dim of the modelled geometry
GeomDim == 1

\* number of categories of the one-hot tag
NumTags == 3

None == [isNone |-> TRUE, ncols |-> 0, rows |-> <<>>]

Arr(c, r) == [isNone |-> FALSE, ncols |-> c, rows |-> r]

\* np.empty((0, dim))
Empty(c) == Arr(c, <<>>)

NRows(a) == Len(a.rows)

\* np.atleast_2d: None becomes a 1 x 1 object array
AtLeast2d(a) == IF a.isNone THEN Arr(1, << <<-1>> >>) ELSE a

\* np.vstack((a, b)) raises ValueError unless the column counts agree
VStackOk(a, b) == AtLeast2d(a).ncols = AtLeast2d(b).ncols

VStack(a, b) == Arr(AtLeast2d(a).ncols, AtLeast2d(a).rows \o AtLeast2d(b).rows)

\* a[k:]
SliceFrom(a, k) == Arr(a.ncols, SubSeq(a.rows, k + 1, Len(a.rows)))

RECURSIVE SumSeq(_)
SumSeq(q) == IF q = <<>> THEN 0 ELSE q[1] + SumSeq(Tail(q))

\* np.cumsum([0] + q)
CumSum0(q) == [i \in 1..(Len(q) + 1) |-> SumSeq(SubSeq(q, 1, i - 1))]

RECURSIVE Filter(_, _)
Filter(q, S) ==
    IF q = <<>> THEN <<>>
    ELSE (IF q[1][1] \in S THEN <<q[1]>> ELSE <<>>) \o Filter(Tail(q), S)

RECURSIVE Flatten(_)
Flatten(qq) == IF qq = <<>> THEN <<>> ELSE qq[1] \o Flatten(Tail(qq))

Coord(p) == [j \in 1..GeomDim |-> p]

OneHotRow(t) == [j \in 1..NumTags |-> IF j = t + 1 THEN 1 ELSE 0]

\* np.concatenate([X, one_hot], axis=1) with one_hot[i, idx[i]] = 1
Tagged(X, idx) ==
    Arr(X.ncols + NumTags, [i \in 1..NRows(X) |-> X.rows[i] \o OneHotRow(idx[i])])

TagChoices(X) == [1..NRows(X) -> 0..(NumTags - 1)]

(* ------------------------ external collaborators ----------------------- *)

\* geometry: interior points are 11.., boundary points 21.., initial 31..
Grid(base, n) == Arr(GeomDim, [i \in 1..n |-> Coord(base + i)])

\* the low-discrepancy sequence visits the same points in another order
Sobol(base, n) == Arr(GeomDim, [i \in 1..n |-> Coord(base + n + 1 - i)])

uniform_points(n, boundary) ==
    IF boundary
    THEN Arr(GeomDim, [i \in 1..n |-> IF i = 1 THEN Coord(21) ELSE Coord(10 + i - 1)])
    ELSE Grid(10, n)

random_points(n) == Sobol(10, n)

uniform_boundary_points(n) == Grid(20, n)

random_boundary_points(n) == Sobol(20, n)

uniform_initial_points(n) == Grid(30, n)

random_initial_points(n) == Sobol(30, n)

\* a boundary condition is the set of coordinates it selects
OnBoundary == 21..29

OnInitial == 31..39

\* bc.collocation_points(X): the rows of X the condition selects, in order
collocation_points(bc, X) == Arr(X.ncols, Filter(X.rows, bc))

\* solution(X): one target value per row
Solution(X) == Arr(1, [i \in 1..NRows(X) |-> <<2 * X.rows[i][1]>>])

\* run_if_all_none: the wrapped body runs only when every named attribute is None
RunIfAllNone(attrs) == \A i \in 1..Len(attrs) : attrs[i].isNone

(* ------------------------------ the object ----------------------------- *)

Self ==
    [variant |-> variant, num_domain |-> num_domain, num_boundary |-> num_boundary,
     num_initial |-> num_initial, train_distribution |-> train_distribution,
     anchors |-> anchors, soln |-> soln, num_test |-> num_test, bcs |-> bcs,
     num_bcs |-> num_bcs, train_x |-> train_x, train_y |-> train_y,
     test_x |-> test_x, test_y |-> test_y]

Store(s) ==
    /\ variant' = s.variant
    /\ num_domain' = s.num_domain
    /\ num_boundary' = s.num_boundary
    /\ num_initial' = s.num_initial
    /\ train_distribution' = s.train_distribution
    /\ anchors' = s.anchors
    /\ soln' = s.soln
    /\ num_test' = s.num_test
    /\ bcs' = s.bcs
    /\ num_bcs' = s.num_bcs
    /\ train_x' = s.train_x
    /\ train_y' = s.train_y
    /\ test_x' = s.test_x
    /\ test_y' = s.test_y

\* result of a call: the object afterwards, the exception raised, the value returned
Res(s, e, r) == [s |-> s, err |-> e, ret |-> r]

NoneList == [isNone |-> TRUE, v |-> <<>>]

List(q) == [isNone |-> FALSE, v |-> q]

\* num_test=None
NoTest == -1

(* ------------------------------ sampling ------------------------------- *)

\* an intermediate array of a method together with the exception, if any
Got(X, e) == [X |-> X, err |-> e]

\* what a call that raised or returns nothing hands back
NoRet == <<None, None>>

\* if self.num_domain > 0: the interior samples, else np.empty((0, dim))
StackDomain(s) ==
    IF s.num_domain > 0
    THEN (IF s.train_distribution = "uniform"
          THEN uniform_points(s.num_domain, FALSE)
          ELSE random_points(s.num_domain))
    ELSE Empty(GeomDim)

\* if self.num_boundary > 0: X = np.vstack((tmp, X))
StackBoundary(s, X) ==
    IF s.num_boundary > 0
    THEN VStack(IF s.train_distribution = "uniform"
                THEN uniform_boundary_points(s.num_boundary)
                ELSE random_boundary_points(s.num_boundary), X)
    ELSE X

\* if self.num_initial > 0: X = np.vstack((tmp, X))
StackInitial(s, X) ==
    IF s.num_initial > 0
    THEN VStack(IF s.train_distribution = "uniform"
                THEN uniform_initial_points(s.num_initial)
                ELSE random_initial_points(s.num_initial), X)
    ELSE X

\* if self.anchors is not None: X = np.vstack((self.anchors, X))
StackAnchors(s, X) ==
    IF s.anchors.isNone THEN Got(X, "none")
    ELSE IF VStackOk(s.anchors, X) THEN Got(VStack(s.anchors, X), "none")
    ELSE Got(X, "ValueError")

\* PDE.train_points up to the anchors: the array before the tag columns
PDE_stack(s) == StackAnchors(s, StackBoundary(s, StackDomain(s)))

\* TimePDE.train_points up to the anchors
TimePDE_stack(s) ==
    StackAnchors(s, StackInitial(s, StackBoundary(s, StackDomain(s))))

StackOf(s) == IF s.variant = "TimePDE" THEN TimePDE_stack(s) ELSE PDE_stack(s)

\* the random one-hot tag idx appended to the stacked samples
TagGot(g, idx) == IF g.err # "none" THEN g ELSE Got(Tagged(g.X, idx), "none")

\* train_points()
train_points(s, idx) == TagGot(StackOf(s), idx)

\* bc_points(): records the ledger, builds the stacked array X and returns
\* nothing; np.vstack of an empty list raises, the tagged X is dropped on return
bc_points(s) ==
    Res([s EXCEPT !.num_bcs =
            List([i \in 1..Len(s.bcs) |->
                    NRows(collocation_points(s.bcs[i], s.train_x))])],
        IF Len(s.bcs) = 0 THEN "ValueError" ELSE "none",
        None)

\* PDE.test_points / TimePDE.test_points (the latter reads the undefined
\* name num_examples)
test_points(s) ==
    IF s.variant = "TimePDE"
    THEN Got(None, "NameError")
    ELSE Got(uniform_points(s.num_test, TRUE), "none")

(* ------------------------------- methods ------------------------------- *)

\* the decorator naming train_y alone
TrainCacheAttrsOnlyY(s) == <<s.train_y>>

\* the attributes named by the decorator of train_next_batch
TrainCacheAttrs(s) == <<s.train_x, s.train_y>>

\* the attributes named by the decorator of test
TestCacheAttrs(s) == <<s.test_x, s.test_y>>

\* self.train_y = self.soln(self.train_x) if self.soln else None
WithTargets(s) ==
    [s EXCEPT !.train_y = IF s.soln THEN Solution(s.train_x) ELSE None]

\* self.train_x = np.vstack((self.bc_points(), self.train_x)) and the targets,
\* bp being the outcome of the bc_points() call
StackPrefix(bp) ==
    IF bp.err # "none" THEN Res(bp.s, bp.err, NoRet)
    ELSE IF ~VStackOk(bp.ret, bp.s.train_x) THEN Res(bp.s, "ValueError", NoRet)
    ELSE Res(WithTargets([bp.s EXCEPT !.train_x = VStack(bp.ret, bp.s.train_x)]),
             "none", NoRet)

\* return self.train_x, self.train_y
ReturnTrain(r) ==
    IF r.err # "none" THEN r ELSE Res(r.s, "none", <<r.s.train_x, r.s.train_y>>)

\* the body of train_next_batch, tp being the outcome of train_points()
TrainBody(s, tp) ==
    IF tp.err # "none" THEN Res(s, tp.err, NoRet)
    ELSE ReturnTrain(StackPrefix(bc_points([s EXCEPT !.train_x = tp.X])))

train_next_batch(s, idx) ==
    IF ~RunIfAllNone(TrainCacheAttrs(s))
    THEN Res(s, "none", <<s.train_x, s.train_y>>)
    ELSE TrainBody(s, train_points(s, idx))

\* return self.test_x, self.test_y
ReturnTest(s) == Res(s, "none", <<s.test_x, s.test_y>>)

\* the num_test is None branch of test, k being sum(self.num_bcs)
TestSlice(s, k) ==
    [s EXCEPT !.test_x = SliceFrom(s.train_x, k),
              !.test_y = IF ~s.train_y.isNone THEN SliceFrom(s.train_y, k) ELSE None]

\* the other branch of test, tp being the outcome of test_points()
TestSampled(s, tp) ==
    IF tp.err # "none" THEN Res(s, tp.err, NoRet)
    ELSE ReturnTest([s EXCEPT !.test_x = tp.X,
                              !.test_y = IF s.soln THEN Solution(tp.X) ELSE None])

test(s) ==
    IF ~RunIfAllNone(TestCacheAttrs(s))
    THEN Res(s, "none", <<s.test_x, s.test_y>>)
    ELSE IF s.num_test = NoTest
    THEN (IF s.num_bcs.isNone \/ s.train_x.isNone
          THEN Res(s, "TypeError", NoRet)
          ELSE ReturnTest(TestSlice(s, SumSeq(s.num_bcs.v))))
    ELSE TestSampled(s, test_points(s))

\* add_anchors from line 111 on, the anchors being merged already
AddStack(s, A) ==
    IF s.num_bcs.isNone \/ s.train_x.isNone THEN Res(s, "TypeError", NoRet)
    ELSE IF ~VStackOk(A, SliceFrom(s.train_x, SumSeq(s.num_bcs.v)))
    THEN Res(s, "ValueError", NoRet)
    ELSE StackPrefix(bc_points(
            [s EXCEPT !.train_x = VStack(A, SliceFrom(s.train_x, SumSeq(s.num_bcs.v)))]))

add_anchors(s, A) ==
    IF ~s.anchors.isNone /\ ~VStackOk(A, s.anchors) THEN Res(s, "ValueError", NoRet)
    ELSE AddStack([s EXCEPT !.anchors = IF s.anchors.isNone THEN A
                                        ELSE VStack(A, s.anchors)], A)

\* self.test() of __init__, r being the outcome of self.train_next_batch()
InitTest(r) == IF r.err # "none" THEN r ELSE test(r.s)

\* PDE.__init__ after the argument assignments: the two generation calls
init_calls(s, idx) == InitTest(train_next_batch(s, idx))

(* -------------------------------- losses ------------------------------- *)

\* one entry of the loss list: what it is computed from.  to = -1 is an open
\* slice [from:], zero marks the constant tf.constant(0)
Entry(kind, comp, from, to, zero) ==
    [kind |-> kind, comp |-> comp, from |-> from, to |-> to, zero |-> zero]

\* bcs_start = np.cumsum([0] + self.num_bcs)
bcs_start(s) == CumSum0(s.num_bcs.v)

\* losses_train() slicing the residual from bcs_start[0] instead of bcs_start[-1]
losses_train_from_first(s, R) ==
    LET st == bcs_start(s)
    IN  [c \in 1..R |-> Entry("residual", c, st[1], -1, FALSE)]
        \o [i \in 1..Len(s.bcs) |-> Entry("bc", i, st[i], st[i + 1], FALSE)]

\* losses_train(): R residual components, then one entry per boundary condition
losses_train(s, R) ==
    LET st == bcs_start(s)
    IN  [c \in 1..R |-> Entry("residual", c, st[Len(st)], -1, FALSE)]
        \o [i \in 1..Len(s.bcs) |-> Entry("bc", i, st[i], st[i + 1], FALSE)]

\* losses_test() without the placeholder entries
losses_test_no_placeholders(s, R) ==
    [c \in 1..R |-> Entry("residual", c, 0, -1, FALSE)]

\* losses_test(): R residual components over the whole array, then the zeros
losses_test(s, R) ==
    [c \in 1..R |-> Entry("residual", c, 0, -1, FALSE)]
    \o [i \in 1..Len(s.bcs) |-> Entry("bc", i, 0, 0, TRUE)]

\* losses(): tf.cond builds both branches and selects on data_id
losses(s, data_id, R) ==
    IF s.num_bcs.isNone \/ Len(s.num_bcs.v) < Len(s.bcs)
    THEN Res(s, "TypeError", <<>>)
    ELSE Res(s, "none", IF data_id = 0 THEN losses_train(s, R) ELSE losses_test(s, R))

(* ------------------------------ behaviour ------------------------------ *)

NoArgs == [data_id |-> -1, R |-> 0]

BcsChoices ==
    { <<>>, <<OnBoundary>>, <<OnBoundary, OnBoundary>>, <<OnInitial, OnBoundary>> }

CtorAnchors == { None, Arr(GeomDim, <<Coord(41)>>) }

\* arrays handed to add_anchors: with and without the tag columns
AnchorInputs ==
    { Arr(GeomDim, <<Coord(42)>>),
      Arr(GeomDim + NumTags, <<Coord(22) \o OneHotRow(1)>>) }

\* the constructor arguments, before __init__ runs
Init ==
    /\ variant \in {"PDE", "TimePDE"}
    /\ num_domain \in 0..MaxPoints
    /\ num_boundary \in 0..MaxPoints
    /\ num_initial \in (IF variant = "TimePDE" THEN 0..MaxPoints ELSE {0})
    /\ num_domain + num_boundary + num_initial <= MaxPoints
    /\ train_distribution \in {"uniform", "random"}
    /\ anchors \in CtorAnchors
    /\ soln \in BOOLEAN
    /\ num_test \in {NoTest, MaxTest}
    /\ bcs \in BcsChoices
    /\ num_bcs = NoneList
    /\ train_x = None /\ train_y = None
    /\ test_x = None /\ test_y = None
    /\ pc = "new" /\ call = "none" /\ err = "none"
    /\ ret = NoRet /\ largs = NoArgs /\ loss_list = <<>>
    /\ ctor_anchors = anchors /\ supplied = <<>> /\ candidate = None

\* the tag draws a call of train_next_batch makes
TrainTagChoices(s) ==
    IF RunIfAllNone(TrainCacheAttrs(s)) /\ StackOf(s).err = "none"
    THEN TagChoices(StackOf(s).X)
    ELSE {<<>>}

\* self.train_x as train_next_batch hands it to bc_points, when the call gets there
CandidateOfTrain(s, idx) ==
    IF RunIfAllNone(TrainCacheAttrs(s)) /\ StackOf(s).err = "none"
    THEN train_points(s, idx).X
    ELSE candidate

\* self.train_x as add_anchors hands it to bc_points, when the call gets there
CandidateOfAdd(s, A) ==
    IF /\ s.anchors.isNone \/ VStackOk(A, s.anchors)
       /\ ~s.num_bcs.isNone /\ ~s.train_x.isNone
       /\ VStackOk(A, SliceFrom(s.train_x, SumSeq(s.num_bcs.v)))
    THEN VStack(A, SliceFrom(s.train_x, SumSeq(s.num_bcs.v)))
    ELSE candidate

\* PDE.__init__ / TimePDE.__init__
Construct ==
    /\ pc = "new"
    /\ \E idx \in TrainTagChoices(Self) :
       \E r \in {init_calls(Self, idx)} :
             /\ Store(r.s)
             /\ err' = r.err
             /\ ret' = NoRet
             /\ candidate' = CandidateOfTrain(Self, idx)
    /\ pc' = "constructed"
    /\ call' = "__init__"
    /\ UNCHANGED <<largs, loss_list, ctor_anchors, supplied>>

TrainNextBatch ==
    /\ pc = "constructed"
    /\ \E idx \in TrainTagChoices(Self) :
       \E r \in {train_next_batch(Self, idx)} :
             /\ Store(r.s)
             /\ err' = r.err
             /\ ret' = r.ret
             /\ candidate' = CandidateOfTrain(Self, idx)
    /\ call' = "train_next_batch"
    /\ largs' = NoArgs /\ loss_list' = <<>>
    /\ UNCHANGED <<pc, ctor_anchors, supplied>>

Test ==
    /\ pc = "constructed"
    /\ \E r \in {test(Self)} :
           /\ Store(r.s)
           /\ err' = r.err
           /\ ret' = r.ret
    /\ call' = "test"
    /\ largs' = NoArgs /\ loss_list' = <<>>
    /\ UNCHANGED <<pc, ctor_anchors, supplied, candidate>>

AddAnchors ==
    /\ pc = "constructed"
    /\ Len(supplied) < MaxAdds
    /\ \E A \in AnchorInputs :
       \E r \in {add_anchors(Self, A)} :
             /\ Store(r.s)
             /\ err' = r.err
             /\ ret' = r.ret
             /\ supplied' = Append(supplied, A)
             /\ candidate' = CandidateOfAdd(Self, A)
    /\ call' = "add_anchors"
    /\ largs' = NoArgs /\ loss_list' = <<>>
    /\ UNCHANGED <<pc, ctor_anchors>>

Losses ==
    /\ pc = "constructed"
    /\ \E data_id \in {0, 1}, R \in 1..MaxResidual :
       \E r \in {losses(Self, data_id, R)} :
             /\ err' = r.err
             /\ loss_list' = r.ret
             /\ largs' = [data_id |-> data_id, R |-> R]
    /\ call' = "losses"
    /\ ret' = NoRet
    /\ UNCHANGED <<variant, num_domain, num_boundary, num_initial, train_distribution,
                   anchors, soln, num_test, bcs, num_bcs, train_x, train_y,
                   test_x, test_y, pc, ctor_anchors, supplied, candidate>>

\* a caller assigns the public attribute train_distribution
SetTrainDistribution ==
    /\ pc = "constructed"
    /\ \E d \in {"uniform", "random"} :
         /\ d # train_distribution
         /\ train_distribution' = d
    /\ call' = "set_config"
    /\ err' = "none" /\ ret' = NoRet /\ largs' = NoArgs /\ loss_list' = <<>>
    /\ UNCHANGED <<variant, num_domain, num_boundary, num_initial,
                   anchors, soln, num_test, bcs, num_bcs, train_x, train_y,
                   test_x, test_y, pc, ctor_anchors, supplied, candidate>>

\* the dataset: construction, the generation calls, anchors, reconfiguration
Next ==
    \/ Construct
    \/ TrainNextBatch
    \/ Test
    \/ AddAnchors
    \/ SetTrainDistribution

Spec == Init /\ [][Next]_vars

\* the loss assembler over every ledger the dataset operations produce
NextLosses ==
    \/ Construct
    \/ AddAnchors
    \/ Losses

SpecLosses == Init /\ [][NextLosses]_vars

(* ------------------------------- properties ---------------------------- *)

Constructed == pc = "constructed"

\* the coordinates of a row: its first geometry.dim columns
Point(row) == SubSeq(row, 1, GeomDim)

Points(a) == {Point(a.rows[i]) : i \in 1..NRows(a)}

\* rows [from, to) of an array, 0-based as in the source
RowsOf(a, from, to) == SubSeq(a.rows, from + 1, to)

\* what each condition selects from an array, stacked in condition order
Prefix(X) == Flatten([i \in 1..Len(bcs) |-> collocation_points(bcs[i], X).rows])

\* C1: in every state after construction num_bcs has one entry per boundary
\* condition, sum(num_bcs) <= len(train_x), and rows [cumsum[i], cumsum[i+1])
\* of train_x are exactly what bcs[i].collocation_points returned for the
\* current candidate array, in condition order.
C1_LedgerPartitionsPrefix ==
    Constructed =>
        /\ ~num_bcs.isNone /\ ~train_x.isNone
        /\ Len(num_bcs.v) = Len(bcs)
        /\ SumSeq(num_bcs.v) <= NRows(train_x)
        /\ \A i \in 1..Len(bcs) :
             RowsOf(train_x, CumSum0(num_bcs.v)[i], CumSum0(num_bcs.v)[i + 1])
               = collocation_points(bcs[i], candidate).rows

C3_TrainMemoized ==
    [][ /\ (call' = "train_next_batch" /\ ~(train_x.isNone /\ train_y.isNone))
            => /\ train_x' = train_x /\ train_y' = train_y /\ num_bcs' = num_bcs
               /\ err' = "none"
               /\ ret' = <<train_x, train_y>>
        /\ (call = "train_next_batch" /\ call' = "train_next_batch")
            => ret' = ret ]_vars

\* a cached call answered after add_anchors changed the anchors
C3_Witness ==
    /\ call = "train_next_batch"
    /\ ~train_x.isNone
    /\ ret = <<train_x, train_y>>
    /\ anchors # ctor_anchors

C5_AddAnchorsRebuilds ==
    [][ (call' = "add_anchors" /\ supplied' # supplied
            /\ ~train_x.isNone /\ ~num_bcs.isNone
            /\ VStackOk(supplied'[Len(supplied')], train_x))
        => LET A  == supplied'[Len(supplied')]
               S  == RowsOf(train_x, SumSeq(num_bcs.v), NRows(train_x))
               AS == Arr(A.ncols, A.rows \o S)
           IN  /\ train_x'.rows = Prefix(AS) \o A.rows \o S
               /\ num_bcs' = List([i \in 1..Len(bcs) |->
                                     NRows(collocation_points(bcs[i], AS))]) ]_vars

RECURSIVE NewestFirst(_)
NewestFirst(q) ==
    IF q = <<>> THEN <<>> ELSE NewestFirst(Tail(q)) \o q[1].rows

\* C6: the stored anchors are Ak ++ ... ++ A1 ++ the constructor's anchors, and
\* every anchor point ever supplied is a row of train_x after the
\* boundary-condition prefix.
C6_AnchorsPersist ==
    Constructed =>
        /\ anchors.rows = NewestFirst(supplied) \o ctor_anchors.rows
        /\ ~num_bcs.isNone /\ ~train_x.isNone
        /\ \A k \in 1..Len(supplied) :
             Points(supplied[k]) \subseteq Points(SliceFrom(train_x, SumSeq(num_bcs.v)))
        /\ Points(ctor_anchors) \subseteq Points(SliceFrom(train_x, SumSeq(num_bcs.v)))

\* C7: in both phases the loss list has R + B entries, the R residual
\* components first and then one entry per boundary condition in condition
\* order; in the evaluation phase each boundary entry is the constant zero.
C7_LossLayout ==
    call = "losses" =>
        /\ err = "none"
        /\ Len(loss_list) = largs.R + Len(bcs)
        /\ \A c \in 1..largs.R :
             loss_list[c].kind = "residual" /\ loss_list[c].comp = c
        /\ \A i \in 1..Len(bcs) :
             /\ loss_list[largs.R + i].kind = "bc"
             /\ loss_list[largs.R + i].comp = i
             /\ loss_list[largs.R + i].zero = (largs.data_id # 0)

\* an evaluation-phase list with two residual components and two conditions
C7_Witness ==
    /\ call = "losses" /\ largs.data_id = 1
    /\ largs.R = 2 /\ Len(bcs) = 2
    /\ Len(loss_list) = 4 /\ loss_list[4].zero

\* the 0-based rows an entry of the training list reads
RowsRead(e) ==
    IF e.to = -1 THEN {r \in 0..(NRows(train_x) - 1) : r >= e.from}
    ELSE {r \in 0..(e.to - 1) : r >= e.from}

\* C8: in the training phase every residual component reads the rows from
\* sum(num_bcs) on, condition i reads [cumsum[i], cumsum[i+1]); the condition
\* slices are pairwise disjoint and contiguous and, with the residual range,
\* cover every row of train_x exactly once.
C8_TrainSlices ==
    (call = "losses" /\ largs.data_id = 0) =>
        LET R == largs.R
            B == Len(bcs)
            bc(i) == loss_list[R + i]
        IN  /\ \A c \in 1..R :
                 loss_list[c].from = SumSeq(num_bcs.v) /\ loss_list[c].to = -1
            /\ \A i \in 1..B :
                 /\ bc(i).from = SumSeq(SubSeq(num_bcs.v, 1, i - 1))
                 /\ bc(i).to = bc(i).from + num_bcs.v[i]
            /\ \A i \in 1..B : \A j \in 1..B :
                 i # j => RowsRead(bc(i)) \cap RowsRead(bc(j)) = {}
            /\ \A i \in 1..(B - 1) : bc(i).to = bc(i + 1).from
            /\ B > 0 => (bc(1).from = 0 /\ bc(B).to = loss_list[1].from)
            /\ \A r \in 0..(NRows(train_x) - 1) :
                 Cardinality({i \in 1..B : r \in RowsRead(bc(i))})
                   + (IF r \in RowsRead(loss_list[1]) THEN 1 ELSE 0) = 1

\* a training list where a condition slice and the residual range both hold rows
C8_Witness ==
    /\ call = "losses" /\ largs.data_id = 0
    /\ Len(bcs) = 2
    /\ RowsRead(loss_list[largs.R + 2]) # {}
    /\ RowsRead(loss_list[1]) # {}
    /\ RowsRead(loss_list[largs.R + 2]) \cap RowsRead(loss_list[1]) = {}

\* C9: with no boundary condition the dataset is constructed without an
\* error, num_bcs is empty and every row of train_x is a residual row.
C9_NoConditionsConstructs ==
    (call = "__init__" /\ Len(bcs) = 0) =>
        /\ err = "none"
        /\ num_bcs = List(<<>>)
        /\ train_x = candidate

\* C10: add_anchors leaves test_x and test_y alone, and a test() call after
\* it is a memoized no-op that returns them as they were.
C10_TestFrozenAfterAdd ==
    [][ /\ call' = "add_anchors" => (test_x' = test_x /\ test_y' = test_y)
        /\ (call' = "test" /\ supplied # <<>>)
            => /\ test_x' = test_x /\ test_y' = test_y
               /\ ret' = <<test_x, test_y>> ]_vars

====
